---- MODULE Spec2Model ----
(***************************************************************************)
(* Instruction selection for the WebAssembly target:                       *)
(* WebAssemblyDAGToDAGISel (llvm/lib/Target/WebAssembly/                   *)
(* WebAssemblyISelDAGToDAG.cpp).                                           *)
(*                                                                         *)
(* The selection DAG is a sequence of node records; a node is named by its *)
(* index.  An operand is a value [n |-> node, r |-> result number].        *)
(* Operand numbers are 1-based here: the source's getOperand(k) is         *)
(* ops[k+1].                                                               *)
(***************************************************************************)
EXTENDS Integers, Sequences, FiniteSets, TLC

VARIABLES
  tc,        \* the subtarget: feature flags, OS, build flavour
  dag,       \* CurDAG: [nodes |-> sequence of node records, root |-> node]
  pos,       \* ISelPosition of the driver's walk
  pc,        \* "init", "select", "done" or "fatal"
  fatalMsg,  \* the diagnostic of the fatal error, "" when none
  last,      \* the last call of Select: node, its opcode, how it ended, the DAG before
  input,     \* the DAG the current run of the driver started on
  run,       \* 1 for the first run of the driver, 2 for a run on its own output
  calls,     \* the calls of Select so far: <<node, how it ended, run>>, oldest first
  OutOps,    \* inline asm: the output operand list
  asm        \* inline asm: the last call of SelectInlineAsmMemoryOperand

vars == <<tc, dag, pos, pc, fatalMsg, last, input, run, calls, OutOps, asm>>

dagVars == <<tc, dag, pos, pc, fatalMsg, last, input, run, calls>>
asmVars == <<OutOps, asm>>

(***************************************************************************)
(* Bounds of the model.                                                    *)
(***************************************************************************)
\* number of operations on the chain between the entry token and the root
MaxItems == 2
\* longest output operand list of the inline-asm binder
MaxOutOps == 3

(***************************************************************************)
(* Program constants.                                                      *)
(***************************************************************************)
\* SyncScope::SingleThread
SingleThread == 0
\* SyncScope::System
System == 1
\* a sync scope id that is neither of the two
OtherScope == System + 1
\* the order operand of the hardware fence: sequentially consistent
SeqCstOrder == 0
\* The orderings the input fences request: AtomicOrdering::Acquire and
\* ::SequentiallyConsistent
Orderings == {4, 7}
Scopes == {SingleThread, System, OtherScope}

TLSModels == {"LocalExec", "GeneralDynamic"}
Offsets == {0, 4}

\* Intrinsic ids: the three the selector knows and one it does not
IntrinsicsWOChain == {"wasm_tls_size", "wasm_tls_align", "wasm_other"}
IntrinsicsWChain == {"wasm_tls_base", "wasm_other_chain"}

(***************************************************************************)
(* Nodes.                                                                  *)
(***************************************************************************)
Val(n, r) == [n |-> n, r |-> r]

\* A node: opcode, isMachineOpcode(), operands, result types, and the payload
\* of constant / symbol / global-address nodes.  id is the NodeId (-1: selected).
Node(opc, mach, ops, vts, val, sym, tlsm, id) ==
  [opc |-> opc, mach |-> mach, ops |-> ops, vts |-> vts,
   val |-> val, sym |-> sym, tlsm |-> tlsm, id |-> id]

\* A generic (ISD) node of the input DAG
Generic(opc, ops, vts, id) == Node(opc, FALSE, ops, vts, 0, "", "", id)

\* ConstantSDNode
Constant(v, id) == Node("Constant", FALSE, <<>>, <<"i32">>, v, "", "", id)

\* An intrinsic id operand
IntrinsicID(name, id) == Node("Constant", FALSE, <<>>, <<"i32">>, 0, name, "", id)

\* What is left of a node after DeleteNode
Deleted == Node("DELETED_NODE", FALSE, <<>>, <<>>, 0, "", "", -1)

IsLive(d, n) == n \in 1..Len(d.nodes) /\ d.nodes[n].opc # "DELETED_NODE"

\* SDNode::isMachineOpcode
isMachineOpcode(d, n) == d.nodes[n].mach

\* The uses of node n: <<user, operand number>>
Uses(d, n) ==
  {u \in (1..Len(d.nodes)) \X (1..3) :
     /\ u[2] \in 1..Len(d.nodes[u[1]].ops)
     /\ d.nodes[u[1]].ops[u[2]].n = n}

\* SDNode::use_empty; the root is held by a handle and so always has a use
use_empty(d, n) == Uses(d, n) = {} /\ d.root # n

\* The nodes reachable from the root through operand edges
RECURSIVE ReachFrom(_, _, _)
ReachFrom(d, seen, frontier) ==
  IF frontier = {} THEN seen
  ELSE LET opsOf(m) == {d.nodes[m].ops[i].n : i \in 1..Len(d.nodes[m].ops)}
           nxt == (UNION {opsOf(m) : m \in frontier}) \ (seen \cup frontier)
       IN  ReachFrom(d, seen \cup frontier, nxt)

Reachable(d) == ReachFrom(d, {}, {d.root})

(***************************************************************************)
(* The DAG rewriter (SelectionDAG / SelectionDAGISel).                     *)
(***************************************************************************)
\* Allocates a fresh node at the end of the node list; the new node is Len
AddNode(d, nd) == [d EXCEPT !.nodes = Append(@, nd)]

\* SelectionDAG::getMachineNode: a new machine node, born selected.  ops are
\* its node operands; a target constant, external symbol or global address
\* operand is an immediate of the instruction, carried in val and sym
getMachineNode(d, opc, vts, ops, val, sym) ==
  AddNode(d, Node(opc, TRUE, ops, vts, val, sym, "", -1))

\* SelectionDAG::ReplaceAllUsesWith(From, To): result i of From becomes result i of To
ReplaceAllUsesWith(d, F, T) ==
  [nodes |-> [i \in 1..Len(d.nodes) |->
                [d.nodes[i] EXCEPT !.ops =
                   [k \in 1..Len(d.nodes[i].ops) |->
                      IF d.nodes[i].ops[k].n = F
                        THEN Val(T, d.nodes[i].ops[k].r)
                        ELSE d.nodes[i].ops[k]]]],
   root |-> IF d.root = F THEN T ELSE d.root]

\* SelectionDAG::RemoveDeadNodes: deletes the listed nodes and, transitively,
\* every operand whose last use went with them
RECURSIVE RemoveDeadNodes(_, _)
RemoveDeadNodes(d, dead) ==
  IF dead = {} THEN d
  ELSE LET n == CHOOSE x \in dead : TRUE
       IN  IF ~IsLive(d, n) THEN RemoveDeadNodes(d, dead \ {n})
           ELSE LET opnds == {d.nodes[n].ops[i].n : i \in 1..Len(d.nodes[n].ops)}
                    d1 == [d EXCEPT !.nodes[n] = Deleted]
                    more == {m \in opnds : IsLive(d1, m) /\ use_empty(d1, m)}
                IN  RemoveDeadNodes(d1, (dead \ {n}) \cup more)

\* SelectionDAG::RemoveDeadNode
RemoveDeadNode(d, n) == RemoveDeadNodes(d, {n})

\* SelectionDAGISel::ReplaceNode: replace all uses of F with T, then remove F
ReplaceNode(d, F, T) == RemoveDeadNode(ReplaceAllUsesWith(d, F, T), F)

(***************************************************************************)
(* Input graphs: an entry token, MaxItems operations threaded on the       *)
(* chain, and a root that ends the chain.  Node numbers are a topological  *)
(* order: operands before users.                                           *)
(***************************************************************************)
Items ==
  [k : {"fence"}, a : Orderings, b : Scopes, s : {""}]
    \cup [k : {"tls"}, a : Offsets, b : {0}, s : TLSModels]
    \cup [k : {"intr_wo"}, a : {0}, b : {0}, s : IntrinsicsWOChain]
    \cup [k : {"intr_w"}, a : {0}, b : {0}, s : IntrinsicsWChain]
    \cup [k : {"machine"}, a : {0}, b : {0}, s : {""}]

\* Appends the nodes of one item after chain value ch; the last node added
\* produces the new chain as its last result
AddItem(ns, ch, it) ==
  LET n == Len(ns) IN
  CASE it.k = "fence" ->
         ns \o << Constant(it.a, n + 1), Constant(it.b, n + 2),
                  Generic("ATOMIC_FENCE", <<ch, Val(n + 1, 0), Val(n + 2, 0)>>,
                          <<"Other">>, n + 3) >>
    [] it.k = "tls" ->
         ns \o << Node("GlobalTLSAddress", FALSE, <<>>, <<"i32">>, it.a, "gv", it.s, n + 1),
                  Generic("STORE", <<ch, Val(n + 1, 0)>>, <<"Other">>, n + 2) >>
    [] it.k = "intr_wo" ->
         ns \o << IntrinsicID(it.s, n + 1),
                  Generic("INTRINSIC_WO_CHAIN", <<Val(n + 1, 0)>>, <<"i32">>, n + 2),
                  Generic("STORE", <<ch, Val(n + 2, 0)>>, <<"Other">>, n + 3) >>
    [] it.k = "intr_w" ->
         ns \o << IntrinsicID(it.s, n + 1),
                  Generic("INTRINSIC_W_CHAIN", <<ch, Val(n + 1, 0)>>,
                          <<"i32", "Other">>, n + 2),
                  Generic("STORE", <<Val(n + 2, 1), Val(n + 2, 0)>>, <<"Other">>, n + 3) >>
    [] it.k = "machine" ->
         ns \o << Node("NOP", TRUE, <<ch>>, <<"Other">>, 0, "", "", n + 1) >>

\* The chain value a node list ends with
ChainOut(ns) == Val(Len(ns), Len(ns[Len(ns)].vts) - 1)

RECURSIVE AddItems(_, _)
AddItems(ns, its) ==
  IF its = <<>> THEN ns
  ELSE AddItems(AddItem(ns, ChainOut(ns), Head(its)), Tail(its))

BuildDAG(its) ==
  LET body == AddItems(<<Generic("EntryToken", <<>>, <<"Other">>, 1)>>, its)
      all == Append(body, Generic("RET", <<ChainOut(body)>>, <<"Other">>, Len(body) + 1))
  IN  [nodes |-> all, root |-> Len(all)]

ItemSeqs == UNION {[1..k -> Items] : k \in 0..MaxItems}

\* The same graph with every node machine-level already
Finalized(d) ==
  [d EXCEPT !.nodes = [i \in 1..Len(d.nodes) |->
                         [d.nodes[i] EXCEPT !.mach = TRUE, !.opc = "NOP", !.id = -1]]]

\* Graphs that are machine-level throughout: the chain holds machine nodes only
FinalizedDAGs ==
  {Finalized(BuildDAG(its)) :
     its \in UNION {[1..k -> {it \in Items : it.k = "machine"}] : k \in 0..MaxItems}}

InputDAGs == {BuildDAG(its) : its \in ItemSeqs} \cup FinalizedDAGs

(***************************************************************************)
(* WebAssemblyDAGToDAGISel::Select.  A call ends in one of four ways:      *)
(*   "selected"  the node was machine-level already                        *)
(*   "custom"    a custom rule replaced the node                           *)
(*   "matcher"   the node was handed to SelectCode                         *)
(*   "fatal"     the compilation was aborted                               *)
(* Select yields the set of the results the build can produce.             *)
(***************************************************************************)
Result(kind, d, msg) == [kind |-> kind, d |-> d, msg |-> msg]

\* Mutant: the error is reported and the call returns
report_fatal_error_Returns(d, msg) == [kind |-> "custom", d |-> d, msg |-> msg]

report_fatal_error(d, msg) == Result("fatal", d, msg)

\* TLI->getPointerTy(CurDAG->getDataLayout())
PtrVT(t) == IF t.addr64 THEN "i64" ELSE "i32"

\* assert(PtrVT == MVT::i32 && "only wasm32 is supported for now") stops the run
AssertFails(t) == t.asserts /\ PtrVT(t) # "i32"
AssertMsg == "only wasm32 is supported for now"

\* SelectCode: the generated matcher covers the node with a machine instruction
SelectCode(d, N) ==
  Result("matcher",
         [d EXCEPT !.nodes[N] = [@ EXCEPT !.opc = "MATCHED", !.mach = TRUE, !.id = -1]],
         "")

\* Mutant: a machine-level node is selected again
SelectMachine_Again(d, N) ==
  [kind |-> "matcher",
   d |-> [d EXCEPT !.nodes[N] = [@ EXCEPT !.opc = "MATCHED", !.id = -1]],
   msg |-> ""]

\* The node is machine-level: Node->setNodeId(-1)
SelectMachine(d, N) == Result("selected", [d EXCEPT !.nodes[N].id = -1], "")

\* Mutant: the default label falls into the single-thread case
llvm_unreachable_FallsThrough(t) == {"COMPILER_FENCE"}

\* llvm_unreachable: aborts when assertions are compiled in; without them the
\* default label is undefined behaviour, and control may fall into either case
llvm_unreachable(t) ==
  IF t.asserts THEN {"abort"} ELSE {"abort", "COMPILER_FENCE", "ATOMIC_FENCE"}

\* Mutant: the two scopes are exchanged
FenceOpcodes_Swapped(t, SyncScopeID) ==
  CASE SyncScopeID = SingleThread -> {"ATOMIC_FENCE"}
    [] SyncScopeID = System -> {"COMPILER_FENCE"}
    [] OTHER -> {"abort"}

\* switch (SyncScopeID): the machine opcode of the fence
FenceOpcodes(t, SyncScopeID) ==
  CASE SyncScopeID = SingleThread -> {"COMPILER_FENCE"}
    [] SyncScopeID = System -> {"ATOMIC_FENCE"}
    [] OTHER -> llvm_unreachable(t)

\* Mutant: the requested ordering is passed on
FenceOrder_Requested(requested) == requested

\* The order operand of the hardware fence
FenceOrder(requested) == SeqCstOrder

\* Mutant: the in-chain is the chain result of the fence being replaced
MakeFence_ChainFromNode(d, N, opc) ==
  IF opc = "COMPILER_FENCE"
    THEN getMachineNode(d, "COMPILER_FENCE", <<"Other">>, <<Val(N, 0)>>, 0, "")
    ELSE getMachineNode(d, "ATOMIC_FENCE", <<"Other">>, <<Val(N, 0)>>, SeqCstOrder, "")

\* Mutant: the in-chain is taken from operand 1 instead of operand 0
MakeFence_WrongChain(d, N, opc) ==
  IF opc = "COMPILER_FENCE"
    THEN getMachineNode(d, "COMPILER_FENCE", <<"Other">>, <<d.nodes[N].ops[2]>>, 0, "")
    ELSE getMachineNode(d, "ATOMIC_FENCE", <<"Other">>, <<d.nodes[N].ops[2]>>,
                        SeqCstOrder, "")

\* Creates the fence machine node; the new node is the last one
MakeFence(d, N, opc) ==
  IF opc = "COMPILER_FENCE"
    THEN getMachineNode(d, "COMPILER_FENCE", <<"Other">>, <<d.nodes[N].ops[1]>>, 0, "")
    ELSE getMachineNode(d, "ATOMIC_FENCE", <<"Other">>, <<d.nodes[N].ops[1]>>,
                        FenceOrder(d.nodes[d.nodes[N].ops[2].n].val), "")

\* Mutant: the fence is lowered without looking at the atomics feature
SelectAtomicFence_NoAtomicsCheck(t, d, N) ==
  LET SyncScopeID == d.nodes[d.nodes[N].ops[3].n].val
      lower(opc) ==
        IF opc = "abort" THEN report_fatal_error(d, "Unknown scope!")
        ELSE LET d1 == MakeFence(d, N, opc)
                 Fence == Len(d1.nodes)
             IN  Result("custom", RemoveDeadNode(ReplaceNode(d1, N, Fence), N), "")
  IN  {lower(opc) : opc \in FenceOpcodes(t, SyncScopeID)}

\* case ISD::ATOMIC_FENCE
SelectAtomicFence(t, d, N) ==
  IF ~t.atomics THEN {SelectCode(d, N)}
  ELSE LET SyncScopeID == d.nodes[d.nodes[N].ops[3].n].val
           lower(opc) ==
             IF opc = "abort" THEN report_fatal_error(d, "Unknown scope!")
             ELSE LET d1 == MakeFence(d, N, opc)
                      Fence == Len(d1.nodes)
                  IN  Result("custom", RemoveDeadNode(ReplaceNode(d1, N, Fence), N), "")
       IN  {lower(opc) : opc \in FenceOpcodes(t, SyncScopeID)}

BulkMemoryMsg == "cannot use thread-local storage without bulk memory"
TLSModelMsg == "only -ftls-model=local-exec is supported for now on non-Emscripten OSes"

\* Mutant: the bulk-memory check is missing
TLSCheck_NoBulkMemory(t, model) ==
  IF model # "LocalExec" /\ ~t.emscripten THEN TLSModelMsg ELSE ""

\* Mutant: the TLS-model check does not look at the OS
TLSCheck_AnyOS(t, model) ==
  IF ~t.bulkMemory THEN BulkMemoryMsg
  ELSE IF model # "LocalExec" THEN TLSModelMsg
  ELSE ""

\* The two checks of case ISD::GlobalTLSAddress: "" when both pass,
\* otherwise the diagnostic
TLSCheck(t, model) ==
  IF ~t.bulkMemory THEN BulkMemoryMsg
  ELSE IF model # "LocalExec" /\ ~t.emscripten THEN TLSModelMsg
  ELSE ""

\* Mutant: the add takes the base pointer twice
MakeTLSAddress_BaseTwice(t, d, N) ==
  LET d1 == getMachineNode(d, "GLOBAL_GET_I32", <<"i32">>, <<>>, 0, "__tls_base")
      TLSBase == Len(d1.nodes)
      d2 == getMachineNode(d1, "CONST_I32", <<"i32">>, <<>>,
                           d.nodes[N].val, d.nodes[N].sym)
  IN  getMachineNode(d2, "ADD_I32", <<"i32">>,
                     <<Val(TLSBase, 0), Val(TLSBase, 0)>>, 0, "")

\* The three machine nodes of a thread-local address; the add is the last node
MakeTLSAddress(t, d, N) ==
  LET d1 == getMachineNode(d, "GLOBAL_GET_I32", <<"i32">>, <<>>, 0, "__tls_base")
      TLSBase == Len(d1.nodes)
      d2 == getMachineNode(d1, "CONST_I32", <<"i32">>, <<>>,
                           d.nodes[N].val, d.nodes[N].sym)
      TLSOffset == Len(d2.nodes)
  IN  getMachineNode(d2, "ADD_I32", <<"i32">>,
                     <<Val(TLSBase, 0), Val(TLSOffset, 0)>>, 0, "")

\* case ISD::GlobalTLSAddress
SelectGlobalTLSAddress(t, d, N) ==
  LET msg == TLSCheck(t, d.nodes[N].tlsm) IN
  IF msg # "" THEN {report_fatal_error(d, msg)}
  ELSE IF AssertFails(t) THEN {report_fatal_error(d, AssertMsg)}
  ELSE LET d1 == MakeTLSAddress(t, d, N)
           TLSAddress == Len(d1.nodes)
       IN  {Result("custom", ReplaceNode(d1, N, TLSAddress), "")}

\* The global an intrinsic reads; "" for an intrinsic without a custom rule
IntrinsicGlobal(IntNo) ==
  CASE IntNo = "wasm_tls_size" -> "__tls_size"
    [] IntNo = "wasm_tls_align" -> "__tls_align"
    [] IntNo = "wasm_tls_base" -> "__tls_base"
    [] OTHER -> ""

\* Mutant: an intrinsic without a custom rule returns instead of breaking
\* out to SelectCode
SelectIntrinsicWOChain_Returns(t, d, N) ==
  LET IntNo == d.nodes[d.nodes[N].ops[1].n].sym IN
  IF IntNo \in {"wasm_tls_size", "wasm_tls_align"}
    THEN LET d1 == getMachineNode(d, "GLOBAL_GET_I32", <<PtrVT(t)>>, <<>>,
                                  0, IntrinsicGlobal(IntNo))
         IN  {Result("custom", ReplaceNode(d1, N, Len(d1.nodes)), "")}
    ELSE {Result("custom", d, "")}

\* case ISD::INTRINSIC_WO_CHAIN
SelectIntrinsicWOChain(t, d, N) ==
  LET IntNo == d.nodes[d.nodes[N].ops[1].n].sym IN
  IF IntNo \in {"wasm_tls_size", "wasm_tls_align"}
    THEN IF AssertFails(t) THEN {report_fatal_error(d, AssertMsg)}
         ELSE LET d1 == getMachineNode(d, "GLOBAL_GET_I32", <<PtrVT(t)>>, <<>>,
                                       0, IntrinsicGlobal(IntNo))
              IN  {Result("custom", ReplaceNode(d1, N, Len(d1.nodes)), "")}
    ELSE {SelectCode(d, N)}

\* Mutant: an intrinsic without a custom rule returns instead of breaking
\* out to SelectCode
SelectIntrinsicWChain_Returns(t, d, N) ==
  LET IntNo == d.nodes[d.nodes[N].ops[2].n].sym IN
  IF IntNo = "wasm_tls_base"
    THEN LET d1 == getMachineNode(d, "GLOBAL_GET_I32", <<"i32", "Other">>,
                                  <<d.nodes[N].ops[1]>>, 0, IntrinsicGlobal(IntNo))
         IN  {Result("custom", ReplaceNode(d1, N, Len(d1.nodes)), "")}
    ELSE {Result("custom", d, "")}

\* Mutant: the uses are redirected but the replaced node is left in the graph
SelectIntrinsicWChain_KeepsNode(t, d, N) ==
  LET IntNo == d.nodes[d.nodes[N].ops[2].n].sym IN
  IF IntNo = "wasm_tls_base"
    THEN LET d1 == getMachineNode(d, "GLOBAL_GET_I32", <<"i32", "Other">>,
                                  <<d.nodes[N].ops[1]>>, 0, IntrinsicGlobal(IntNo))
         IN  {Result("custom", ReplaceAllUsesWith(d1, N, Len(d1.nodes)), "")}
    ELSE {SelectCode(d, N)}

\* case ISD::INTRINSIC_W_CHAIN
SelectIntrinsicWChain(t, d, N) ==
  LET IntNo == d.nodes[d.nodes[N].ops[2].n].sym IN
  IF IntNo = "wasm_tls_base"
    THEN IF AssertFails(t) THEN {report_fatal_error(d, AssertMsg)}
         ELSE LET d1 == getMachineNode(d, "GLOBAL_GET_I32", <<"i32", "Other">>,
                                       <<d.nodes[N].ops[1]>>, 0, IntrinsicGlobal(IntNo))
              IN  {Result("custom", ReplaceNode(d1, N, Len(d1.nodes)), "")}
    ELSE {SelectCode(d, N)}

\* Mutant: the test for a machine-level node is missing; a machine opcode
\* matches no case label and reaches the default
Select_NoMachineCheck(t, d, N) ==
  IF isMachineOpcode(d, N) THEN {SelectCode(d, N)}
  ELSE CASE d.nodes[N].opc = "ATOMIC_FENCE" -> SelectAtomicFence(t, d, N)
         [] d.nodes[N].opc = "GlobalTLSAddress" -> SelectGlobalTLSAddress(t, d, N)
         [] d.nodes[N].opc = "INTRINSIC_WO_CHAIN" -> SelectIntrinsicWOChain(t, d, N)
         [] d.nodes[N].opc = "INTRINSIC_W_CHAIN" -> SelectIntrinsicWChain(t, d, N)
         [] OTHER -> {SelectCode(d, N)}

\* WebAssemblyDAGToDAGISel::Select
Select(t, d, N) ==
  IF isMachineOpcode(d, N) THEN {SelectMachine(d, N)}
  ELSE CASE d.nodes[N].opc = "ATOMIC_FENCE" -> SelectAtomicFence(t, d, N)
         [] d.nodes[N].opc = "GlobalTLSAddress" -> SelectGlobalTLSAddress(t, d, N)
         [] d.nodes[N].opc = "INTRINSIC_WO_CHAIN" -> SelectIntrinsicWOChain(t, d, N)
         [] d.nodes[N].opc = "INTRINSIC_W_CHAIN" -> SelectIntrinsicWChain(t, d, N)
         [] OTHER -> {SelectCode(d, N)}

(***************************************************************************)
(* WebAssemblyDAGToDAGISel::SelectInlineAsmMemoryOperand: the return value *)
(* (false is success) and the operand list afterwards.                     *)
(***************************************************************************)
ConstraintIDs == {"Constraint_i", "Constraint_m", "Constraint_o", "Constraint_X"}
AsmOperands == {"op1", "op2", "op3"}

\* Mutant: only case Constraint_m binds
SelectInlineAsmMemoryOperand_OnlyM(Op, ConstraintID, Out) ==
  IF ConstraintID = "Constraint_m"
    THEN [ret |-> FALSE, out |-> Append(Out, Op)]
    ELSE [ret |-> TRUE, out |-> Out]

\* Mutant: the default label falls into the binding case
SelectInlineAsmMemoryOperand_BindsAll(Op, ConstraintID, Out) ==
  [ret |-> FALSE, out |-> Append(Out, Op)]

SelectInlineAsmMemoryOperand(Op, ConstraintID, Out) ==
  IF ConstraintID \in {"Constraint_i", "Constraint_m"}
    THEN [ret |-> FALSE, out |-> Append(Out, Op)]
    ELSE [ret |-> TRUE, out |-> Out]

(***************************************************************************)
(* The state machine.                                                      *)
(***************************************************************************)
TargetContexts ==
  [atomics : BOOLEAN, bulkMemory : BOOLEAN, addr64 : BOOLEAN,
   emscripten : BOOLEAN, asserts : BOOLEAN]

NoCall == [node |-> 0, opc |-> "", kind |-> "none", pre |-> [nodes |-> <<>>, root |-> 0]]
NoAsm == [op |-> "", cid |-> "", ret |-> FALSE, pre |-> <<>>, calls |-> 0]

Init ==
  /\ tc \in TargetContexts
  /\ dag \in InputDAGs
  /\ input = dag
  /\ run = 1
  /\ calls = <<>>
  /\ pos = 0
  /\ pc = "init"
  /\ fatalMsg = ""
  /\ last = NoCall
  /\ OutOps = <<>>
  /\ asm = NoAsm

Wasm64Msg == "64-bit WebAssembly (wasm64) is not currently supported"

\* Mutant: the wasm64 check is missing
runOnMachineFunction_NoCheck ==
  /\ pc = "init"
  /\ pc' = "select"
  /\ pos' = Len(dag.nodes) + 1
  /\ UNCHANGED <<tc, dag, fatalMsg, last, input, run, calls, OutOps, asm>>

\* Mutant: the wasm64 check is inverted
runOnMachineFunction_Inverted ==
  /\ pc = "init"
  /\ IF ~tc.addr64
       THEN /\ pc' = "fatal"
            /\ fatalMsg' = Wasm64Msg
            /\ UNCHANGED pos
       ELSE /\ pc' = "select"
            /\ pos' = Len(dag.nodes) + 1
            /\ UNCHANGED fatalMsg
  /\ UNCHANGED <<tc, dag, last, input, run, calls, OutOps, asm>>

\* runOnMachineFunction: wasm64 is refused, otherwise the driver starts at the root
runOnMachineFunction ==
  /\ pc = "init"
  /\ IF tc.addr64
       THEN /\ pc' = "fatal"
            /\ fatalMsg' = Wasm64Msg
            /\ UNCHANGED pos
       ELSE /\ pc' = "select"
            /\ pos' = Len(dag.nodes) + 1
            /\ UNCHANGED fatalMsg
  /\ UNCHANGED <<tc, dag, last, input, run, calls, OutOps, asm>>

\* One step of the driver's walk from the root towards the entry: dead nodes
\* are skipped, every other node is handed to Select
SelectNext ==
  /\ pc = "select"
  /\ pos > 1
  /\ pos' = pos - 1
  /\ LET N == pos - 1 IN
     IF ~IsLive(dag, N) \/ use_empty(dag, N)
       THEN UNCHANGED <<dag, pc, fatalMsg, last, calls>>
       ELSE \E r \in Select(tc, dag, N) :
              /\ dag' = r.d
              /\ pc' = IF r.kind = "fatal" THEN "fatal" ELSE "select"
              /\ fatalMsg' = r.msg
              /\ last' = [node |-> N, opc |-> dag.nodes[N].opc, kind |-> r.kind, pre |-> dag]
              /\ calls' = Append(calls, <<N, r.kind, run>>)
  /\ UNCHANGED <<tc, input, run, OutOps, asm>>

\* The walk has passed the first node: selection of the function succeeded
Finish ==
  /\ pc = "select"
  /\ pos = 1
  /\ pc' = "done"
  /\ UNCHANGED <<tc, dag, pos, fatalMsg, last, input, run, calls, OutOps, asm>>

\* The driver is invoked once more, on the graph its first run left: the walk
\* starts again at the end of the node list, which now holds the nodes the
\* first run created
RunAgain ==
  /\ pc = "done"
  /\ run = 1
  /\ run' = 2
  /\ input' = dag
  /\ pc' = "select"
  /\ pos' = Len(dag.nodes) + 1
  /\ UNCHANGED <<tc, dag, fatalMsg, last, calls, OutOps, asm>>

Next == runOnMachineFunction \/ SelectNext \/ Finish \/ RunAgain

Spec == Init /\ [][Next]_vars

(***************************************************************************)
(* The inline-asm operand binder on its own: every call with every         *)
(* constraint class on every operand list up to MaxOutOps.                 *)
(***************************************************************************)
InitAsm ==
  /\ tc = [atomics |-> TRUE, bulkMemory |-> TRUE, addr64 |-> FALSE,
           emscripten |-> FALSE, asserts |-> TRUE]
  /\ dag = BuildDAG(<<>>)
  /\ input = dag
  /\ run = 1
  /\ calls = <<>>
  /\ pos = 0
  /\ pc = "init"
  /\ fatalMsg = ""
  /\ last = NoCall
  /\ OutOps = <<>>
  /\ asm = NoAsm

BindOperand ==
  /\ Len(OutOps) < MaxOutOps
  /\ \E Op \in AsmOperands, ConstraintID \in ConstraintIDs :
       LET r == SelectInlineAsmMemoryOperand(Op, ConstraintID, OutOps) IN
         /\ OutOps' = r.out
         /\ asm' = [op |-> Op, cid |-> ConstraintID, ret |-> r.ret, pre |-> OutOps,
                    calls |-> 1]
  /\ UNCHANGED dagVars

NextAsm == BindOperand

SpecAsm == InitAsm /\ [][NextAsm]_vars

(***************************************************************************)
(* Properties.  last describes the latest call of Select: last.pre is the  *)
(* DAG it was called on and dag the DAG it left.                           *)
(***************************************************************************)
\* The nodes the latest call of Select created
NewNodes == (Len(last.pre.nodes) + 1)..Len(dag.nodes)

\* The latest call replaced its node by F: the node is gone and every use
\* of one of its results is a use of the same result of F
ReplacedBy(F) ==
  /\ F \in NewNodes
  /\ ~IsLive(dag, last.node)
  /\ Uses(dag, last.node) = {}
  /\ \A u \in Uses(last.pre, last.node) :
       dag.nodes[u[1]].ops[u[2]] = Val(F, last.pre.nodes[u[1]].ops[u[2]].r)
  /\ last.pre.root = last.node => dag.root = F

\* The latest call was on a generic atomic fence with this sync scope
FenceCall(scope) ==
  /\ last.opc = "ATOMIC_FENCE"
  /\ ~isMachineOpcode(last.pre, last.node)
  /\ last.pre.nodes[last.pre.nodes[last.node].ops[3].n].val = scope

\* The ordering the fence of the latest call requested
FenceRequested == last.pre.nodes[last.pre.nodes[last.node].ops[2].n].val

\* The latest call replaced the fence by a compiler barrier and created no
\* hardware fence
LoweredToCompilerFence ==
  /\ last.kind = "custom"
  /\ \E F \in NewNodes : dag.nodes[F].opc = "COMPILER_FENCE" /\ ReplacedBy(F)
  /\ \A n \in NewNodes : dag.nodes[n].opc # "ATOMIC_FENCE"

\* C1 (as stated): on every target, selecting an atomic fence of single-thread
\* scope replaces it by a compiler barrier and creates no hardware fence.
C1_Original == FenceCall(SingleThread) => LoweredToCompilerFence

\* C1 (amended): on a target with atomics support, selecting an atomic fence
\* of single-thread scope replaces it by a compiler barrier node that takes the
\* fence's chain, and creates no hardware fence; without atomics support the
\* rule declines and the fence goes to the pattern matcher.
C1_SingleThreadFence ==
  FenceCall(SingleThread) =>
    IF tc.atomics
      THEN LoweredToCompilerFence
      ELSE last.kind = "matcher" /\ NewNodes = {}

C1_Witness ==
  FenceCall(SingleThread) /\ tc.atomics /\ last.kind = "custom" /\ NewNodes # {}

\* C2: on a target with atomics support, selecting an atomic fence of
\* system-wide scope creates exactly one hardware fence node, which replaces
\* the fence and whose order operand is 0 (sequentially consistent) whatever
\* ordering the fence requested.
C2_SystemFence ==
  (FenceCall(System) /\ tc.atomics) =>
    /\ last.kind = "custom"
    /\ Cardinality({n \in NewNodes : dag.nodes[n].opc = "ATOMIC_FENCE"}) = 1
    /\ \A n \in NewNodes :
         /\ dag.nodes[n].opc = "ATOMIC_FENCE"
         /\ dag.nodes[n].mach
         /\ dag.nodes[n].val = SeqCstOrder
         /\ ReplacedBy(n)

C2_Witness ==
  /\ FenceCall(System) /\ tc.atomics
  /\ FenceRequested # SeqCstOrder
  /\ \E n \in NewNodes : dag.nodes[n].opc = "ATOMIC_FENCE"

\* C3 (as stated): on every target, selecting an atomic fence whose scope is
\* neither single-thread nor system-wide ends in a fatal error; the fence is
\* neither replaced nor handed to the pattern matcher.
C3_Original ==
  FenceCall(OtherScope) => (last.kind = "fatal" /\ pc = "fatal" /\ dag = last.pre)

\* C3 (amended): on a target with atomics support, built with assertions,
\* selecting an atomic fence of unknown scope ends in the fatal error
\* "Unknown scope!" and leaves the graph as it was; on a target without atomics
\* support the scope is not read and the fence goes to the pattern matcher.
C3_UnknownScope ==
  FenceCall(OtherScope) =>
    /\ (tc.atomics /\ tc.asserts) =>
         /\ last.kind = "fatal" /\ pc = "fatal"
         /\ fatalMsg = "Unknown scope!"
         /\ dag = last.pre
    /\ ~tc.atomics => (last.kind = "matcher" /\ pc # "fatal")

C3_Witness ==
  FenceCall(OtherScope) /\ tc.atomics /\ tc.asserts /\ pc = "fatal"

\* The latest call was on a thread-local-address node
TLSCall == last.opc = "GlobalTLSAddress"

\* The TLS model, the global and the offset of that node
TLSModel == last.pre.nodes[last.node].tlsm
TLSGlobal == last.pre.nodes[last.node].sym
TLSOffset == last.pre.nodes[last.node].val

\* The machine nodes selection has put into the graph: every live machine
\* node that was not machine-level in the input
EmittedMachine(d) ==
  {n \in 1..Len(d.nodes) : IsLive(d, n) /\ d.nodes[n].mach /\ d.nodes[n].opc # "NOP"}

\* C4 (as stated): selecting a thread-local-address node without bulk-memory
\* support aborts, and at that moment the function's graph holds no machine
\* node emitted by selection, neither for this node nor for nodes visited before.
C4_Original ==
  (TLSCall /\ ~tc.bulkMemory) =>
    (last.kind = "fatal" /\ pc = "fatal" /\ EmittedMachine(dag) = {})

\* C4 (amended): selecting a thread-local-address node without bulk-memory
\* support aborts with the bulk-memory diagnostic whatever the TLS model and
\* the OS are, and the aborted call emits nothing: the graph is as it was when
\* the node was reached (machine nodes of nodes selected earlier stay in it).
C4_NoBulkMemory ==
  (TLSCall /\ ~tc.bulkMemory) =>
    /\ last.kind = "fatal" /\ pc = "fatal"
    /\ fatalMsg = BulkMemoryMsg
    /\ dag = last.pre
    /\ EmittedMachine(dag) = EmittedMachine(last.pre)

C4_Witness ==
  /\ TLSCall /\ ~tc.bulkMemory /\ pc = "fatal"
  /\ TLSModel = "GeneralDynamic" /\ tc.emscripten
  /\ \E n \in EmittedMachine(dag) : dag.nodes[n].opc = "ATOMIC_FENCE"

\* C5 (as stated): selecting a thread-local-address node whose TLS model is
\* not local-exec aborts exactly when the OS is not Emscripten; with local-exec
\* or on Emscripten the TLS-model check never aborts.
C5_Original ==
  TLSCall =>
    /\ TLSModel # "LocalExec" => (last.kind = "fatal" <=> ~tc.emscripten)
    /\ (TLSModel = "LocalExec" \/ tc.emscripten) => fatalMsg # TLSModelMsg

\* C5 (amended): on a target with bulk-memory support, selecting a
\* thread-local-address node whose TLS model is not local-exec aborts exactly
\* when the OS is not Emscripten, with the TLS-model diagnostic; on any target,
\* with local-exec or on Emscripten the TLS-model check never aborts.  (Without
\* bulk memory the node aborts on the earlier check, on Emscripten too.)
C5_TLSModelCheck ==
  TLSCall =>
    /\ (tc.bulkMemory /\ TLSModel # "LocalExec") =>
         /\ last.kind = "fatal" <=> ~tc.emscripten
         /\ last.kind = "fatal" => (fatalMsg = TLSModelMsg /\ pc = "fatal")
    /\ (TLSModel = "LocalExec" \/ tc.emscripten) => fatalMsg # TLSModelMsg
    /\ (tc.bulkMemory /\ (TLSModel = "LocalExec" \/ tc.emscripten)) => last.kind = "custom"

C5_Witness ==
  /\ TLSCall /\ tc.bulkMemory /\ TLSModel = "GeneralDynamic" /\ ~tc.emscripten
  /\ pc = "fatal" /\ fatalMsg = TLSModelMsg

\* C6: a thread-local-address node that passes both checks is replaced by
\* exactly three new machine nodes: a global read of __tls_base, a constant of
\* the variable's address plus offset, and an add of exactly those two; every
\* former use of the node is a use of the add.
C6_TLSAddress ==
  (TLSCall /\ tc.bulkMemory /\ (TLSModel = "LocalExec" \/ tc.emscripten)) =>
    /\ last.kind = "custom"
    /\ Cardinality(NewNodes) = 3
    /\ \A n \in NewNodes : dag.nodes[n].mach
    /\ \E b, o, a \in NewNodes :
         /\ dag.nodes[b].opc = "GLOBAL_GET_I32"
         /\ dag.nodes[b].sym = "__tls_base" /\ dag.nodes[b].ops = <<>>
         /\ dag.nodes[o].opc = "CONST_I32"
         /\ dag.nodes[o].sym = TLSGlobal /\ dag.nodes[o].val = TLSOffset
         /\ dag.nodes[o].ops = <<>>
         /\ dag.nodes[a].opc = "ADD_I32"
         /\ dag.nodes[a].ops = <<Val(b, 0), Val(o, 0)>>
         /\ ReplacedBy(a)

C6_Witness ==
  /\ TLSCall /\ last.kind = "custom"
  /\ TLSOffset = 4
  /\ Uses(last.pre, last.node) # {}
  /\ \E a \in NewNodes : dag.nodes[a].opc = "ADD_I32" /\ Uses(dag, a) # {}

\* The latest call was on one of the thread-local intrinsics
TLSIntrinsicCall ==
  \/ /\ last.opc = "INTRINSIC_WO_CHAIN"
     /\ last.pre.nodes[last.pre.nodes[last.node].ops[1].n].sym
          \in {"wasm_tls_size", "wasm_tls_align"}
  \/ /\ last.opc = "INTRINSIC_W_CHAIN"
     /\ last.pre.nodes[last.pre.nodes[last.node].ops[2].n].sym = "wasm_tls_base"

\* C7: selecting a thread-local intrinsic (TLS size, alignment, base) on a
\* target without bulk-memory support ends in a fatal error and creates no
\* global-read node.
C7_IntrinsicsGated ==
  (TLSIntrinsicCall /\ ~tc.bulkMemory) =>
    /\ last.kind = "fatal" /\ pc = "fatal"
    /\ \A n \in NewNodes : dag.nodes[n].opc # "GLOBAL_GET_I32"

\* SelectInlineAsmMemoryOperand has been called
AsmCalled == asm.calls > 0

\* C8: SelectInlineAsmMemoryOperand with constraint 'i' or 'm' returns false
\* (success) and appends exactly the operand to the output list; what was in
\* the list stays in place.
C8_AsmBinds ==
  (AsmCalled /\ asm.cid \in {"Constraint_i", "Constraint_m"}) =>
    /\ asm.ret = FALSE
    /\ Len(OutOps) = Len(asm.pre) + 1
    /\ OutOps[Len(OutOps)] = asm.op
    /\ \A i \in 1..Len(asm.pre) : OutOps[i] = asm.pre[i]

C8_Witness ==
  /\ AsmCalled /\ asm.cid = "Constraint_i"
  /\ Len(asm.pre) = 2 /\ asm.op # asm.pre[2]
  /\ Len(OutOps) = 3

\* C9: SelectInlineAsmMemoryOperand with any other constraint returns true
\* (failure), leaves the output list as it was and raises no fatal error.
C9_AsmRejects ==
  (AsmCalled /\ asm.cid \notin {"Constraint_i", "Constraint_m"}) =>
    /\ asm.ret = TRUE
    /\ OutOps = asm.pre
    /\ pc # "fatal" /\ fatalMsg = ""

C9_Witness ==
  /\ AsmCalled /\ asm.cid = "Constraint_o"
  /\ asm.ret = TRUE /\ Len(asm.pre) = 2 /\ OutOps = asm.pre

\* C10: when the driver has visited all nodes and no fatal error was raised,
\* every node reachable from the root is machine-level.
C10_Completeness ==
  pc = "done" => \A n \in Reachable(dag) : IsLive(dag, n) /\ dag.nodes[n].mach

C10_Witness ==
  /\ pc = "done"
  /\ \E n, m, k \in Reachable(dag) :
       /\ dag.nodes[n].opc = "ADD_I32"
       /\ dag.nodes[m].opc = "ATOMIC_FENCE"
       /\ dag.nodes[k].opc = "MATCHED"

\* An operand is a chain operand when the result it names has type Other
IsChain(d, op) ==
  /\ IsLive(d, op.n)
  /\ op.r + 1 \in 1..Len(d.nodes[op.n].vts)
  /\ d.nodes[op.n].vts[op.r + 1] = "Other"

\* The chain operands of a node, in operand order
ChainOperands(d, n) == SelectSeq(d.nodes[n].ops, LAMBDA op : IsChain(d, op))

\* The latest call ended without a fatal error
Returned == last.kind \in {"selected", "custom", "matcher"}

\* The node that stands for the node of the latest call afterwards: its
\* replacement, or the node itself when it was selected in place
StandIn ==
  IF last.kind = "custom" /\ \E F \in NewNodes : ReplacedBy(F)
    THEN CHOOSE F \in NewNodes : ReplacedBy(F)
    ELSE last.node

\* The latest call replaced a fence or the TLS-base intrinsic
ChainedCustomCall ==
  /\ last.kind = "custom"
  /\ \/ last.opc = "ATOMIC_FENCE"
     \/ last.opc = "INTRINSIC_W_CHAIN"

\* C11: every call of Select keeps the chain order.  The node that stands for
\* the selected node takes the chain operands the node had, and every chain
\* operand of every other node names the same result as before, of the same
\* node or of the stand-in.  The replacement of a fence (either scope) and of
\* the TLS-base intrinsic has exactly one chain input, the chain operand of the
\* node it replaces, and one chain result, which every former chain user uses.
C11_ChainPreserved ==
  Returned =>
    /\ IsLive(dag, StandIn)
    /\ ChainOperands(dag, StandIn) = ChainOperands(last.pre, last.node)
    /\ \A B \in 1..Len(last.pre.nodes) :
         (B # last.node /\ IsLive(last.pre, B) /\ IsLive(dag, B)) =>
           \A k \in 1..Len(last.pre.nodes[B].ops) :
             LET op == last.pre.nodes[B].ops[k] IN
               IsChain(last.pre, op) =>
                 /\ IsChain(dag, dag.nodes[B].ops[k])
                 /\ dag.nodes[B].ops[k] =
                      IF op.n = last.node THEN Val(StandIn, op.r) ELSE op
    /\ ChainedCustomCall =>
         /\ StandIn \in NewNodes
         /\ dag.nodes[StandIn].ops = <<last.pre.nodes[last.node].ops[1]>>
         /\ IsChain(dag, dag.nodes[StandIn].ops[1])
         /\ dag.nodes[StandIn].vts = last.pre.nodes[last.node].vts
         /\ Cardinality({i \in 1..Len(dag.nodes[StandIn].vts) :
                           dag.nodes[StandIn].vts[i] = "Other"}) = 1

C11_Witness ==
  /\ ChainedCustomCall
  /\ last.opc = "INTRINSIC_W_CHAIN"
  /\ dag.nodes[StandIn].opc = "GLOBAL_GET_I32"
  /\ \E u \in Uses(last.pre, last.node) :
       /\ last.pre.nodes[u[1]].ops[u[2]].r = 1
       /\ dag.nodes[u[1]].ops[u[2]] = Val(StandIn, 1)
  /\ last.pre.nodes[last.pre.nodes[last.node].ops[1].n].opc = "ATOMIC_FENCE"

\* Every node of the graph is machine-level
AllMachine(d) == \A n \in 1..Len(d.nodes) : IsLive(d, n) => d.nodes[n].mach

\* The calls of Select in the current run of the driver
CallsOfRun == SelectSeq(calls, LAMBDA c : c[3] = run)

\* The driver has been started on the current input
DriverRan == pc \in {"select", "done"} \/ last.kind = "fatal"

\* C12: the driver run on a graph whose nodes are all machine-level replaces
\* nothing, creates and removes no node, changes no operand and does not fail;
\* the graph a successful run leaves is such a graph, so a second run leaves
\* it unchanged.
C12_Idempotent ==
  /\ (AllMachine(input) /\ DriverRan) =>
       /\ dag = input
       /\ pc # "fatal"
       /\ \A i \in 1..Len(CallsOfRun) : CallsOfRun[i][2] = "selected"
       /\ pos = 1 => Len(CallsOfRun) = Cardinality({n \in 1..Len(dag.nodes) :
                                                    IsLive(dag, n) /\ ~use_empty(dag, n)})
  /\ run = 2 => (AllMachine(input) /\ dag = input)

C12_Witness ==
  /\ run = 2 /\ pc = "done"
  /\ \E i \in 1..Len(CallsOfRun) : dag.nodes[CallsOfRun[i][1]].opc = "ADD_I32"
  /\ \E i \in 1..Len(CallsOfRun) : dag.nodes[CallsOfRun[i][1]].opc = "MATCHED"

\* The nodes that lose their last use in the latest call
LostLastUse ==
  {n \in 1..Len(last.pre.nodes) :
     /\ IsLive(last.pre, n)
     /\ ~use_empty(last.pre, n)
     /\ Uses(dag, n) = {} /\ dag.root # n}

\* C13: after a substitution by a custom rule (fence, thread-local address,
\* TLS size / alignment / base) the replaced node, and every node the
\* substitution leaves without a use, transitively, is removed from the graph
\* and is not reachable from the root.
C13_DeadNodesRemoved ==
  last.kind = "custom" =>
    /\ ~IsLive(dag, last.node)
    /\ last.node \notin Reachable(dag)
    /\ last.node \in LostLastUse
    /\ \A n \in LostLastUse : ~IsLive(dag, n) /\ n \notin Reachable(dag)
    /\ \A n \in 1..Len(last.pre.nodes) :
         (IsLive(last.pre, n) /\ n \notin LostLastUse) => IsLive(dag, n)
    /\ \A n \in Reachable(dag) : IsLive(dag, n)

C13_Witness ==
  /\ last.kind = "custom"
  /\ last.opc = "INTRINSIC_W_CHAIN"
  /\ Cardinality(LostLastUse) = 2
  /\ \E n \in LostLastUse : last.pre.nodes[n].opc = "Constant"

\* The machine opcodes the custom rules create
CustomOpcodes ==
  {"COMPILER_FENCE", "ATOMIC_FENCE", "GLOBAL_GET_I32", "CONST_I32", "ADD_I32"}

\* A call that lowered its node
IsLowering(c) == c[2] \in {"custom", "matcher"}

\* C14: a node goes from Unvisited to Finalized only.  Only a node that is
\* not machine-level is lowered, and at most once in all runs; a node that was
\* selected in place or found machine-level stays machine-level; a replaced
\* node does not come back; and a machine node a custom rule created is only
\* ever skipped when the driver reaches it.
C14_FinalizedOnce ==
  /\ last.kind \in {"custom", "matcher"} => ~isMachineOpcode(last.pre, last.node)
  /\ \A i, j \in 1..Len(calls) :
       (IsLowering(calls[i]) /\ j < i) => calls[j][1] # calls[i][1]
  /\ \A i \in 1..Len(calls) :
       /\ calls[i][2] \in {"selected", "matcher"} =>
            (IsLive(dag, calls[i][1]) /\ isMachineOpcode(dag, calls[i][1]))
       /\ calls[i][2] = "custom" => ~IsLive(dag, calls[i][1])
       /\ (isMachineOpcode(dag, calls[i][1])
             /\ dag.nodes[calls[i][1]].opc \in CustomOpcodes) =>
            calls[i][2] = "selected"

C14_Witness ==
  /\ run = 2
  /\ \E i, j \in 1..Len(calls) :
       /\ calls[i][1] = calls[j][1]
       /\ calls[i][2] = "matcher" /\ calls[j][2] = "selected" /\ i < j
  /\ \E i \in 1..Len(calls) :
       /\ dag.nodes[calls[i][1]].opc = "ADD_I32"
       /\ calls[i][2] = "selected"

\* The opcodes Select has a case label for
RuleOpcodes ==
  {"ATOMIC_FENCE", "GlobalTLSAddress", "INTRINSIC_WO_CHAIN", "INTRINSIC_W_CHAIN"}

\* The node of the latest call was one no custom rule claims: not
\* machine-level, and either of an opcode without a rule or an intrinsic other
\* than TLS size, alignment and base
NoRuleClaims ==
  /\ last.kind # "none"
  /\ ~isMachineOpcode(last.pre, last.node)
  /\ \/ last.opc \notin RuleOpcodes
     \/ last.opc \in {"INTRINSIC_WO_CHAIN", "INTRINSIC_W_CHAIN"} /\ ~TLSIntrinsicCall

\* The number of times the node of the latest call went to the matcher
TimesMatched ==
  Cardinality({i \in 1..Len(calls) : calls[i][1] = last.node /\ calls[i][2] = "matcher"})

\* C15: every call of Select ends in one of four ways: the node was
\* machine-level and is skipped, a custom rule replaced it, it went to the
\* matcher, or the run is aborted.  The rules come first: a node a rule
\* replaces never goes to the matcher, and a node that no rule claims goes to
\* the matcher, exactly once.
C15_Dispatch ==
  last.kind # "none" =>
    /\ last.kind \in {"selected", "custom", "matcher", "fatal"}
    /\ last.kind = "selected" <=> isMachineOpcode(last.pre, last.node)
    /\ last.kind = "selected" =>
         /\ NewNodes = {}
         /\ \A n \in 1..Len(dag.nodes) :
              /\ dag.nodes[n].opc = last.pre.nodes[n].opc
              /\ dag.nodes[n].ops = last.pre.nodes[n].ops
    /\ last.kind = "custom" =>
         /\ last.opc \in RuleOpcodes
         /\ \E F \in NewNodes : ReplacedBy(F)
         /\ TimesMatched = 0
    /\ last.kind = "matcher" =>
         /\ NewNodes = {}
         /\ IsLive(dag, last.node) /\ isMachineOpcode(dag, last.node)
         /\ dag.nodes[last.node].ops = last.pre.nodes[last.node].ops
         /\ TimesMatched = 1
    /\ last.kind = "fatal" => (pc = "fatal" /\ TimesMatched = 0)
    /\ NoRuleClaims => last.kind = "matcher"

C15_Witness ==
  /\ NoRuleClaims
  /\ last.opc = "INTRINSIC_W_CHAIN"
  /\ last.kind = "matcher"
  /\ \E i \in 1..Len(calls) : calls[i][2] = "custom"

\* C16: a fatal error ends the run.  The call that raised it is the last call
\* of Select, it leaves the graph as it found it, its node was never handed to
\* the matcher, no call follows it, and the run does not end in success.
C16_FatalIsTerminal ==
  /\ fatalMsg # "" <=> pc = "fatal"
  /\ \A i \in 1..Len(calls) : calls[i][2] = "fatal" => i = Len(calls)
  /\ \A i \in 1..Len(calls) : calls[i][2] = "fatal" => pc = "fatal"
  /\ pc = "fatal" =>
       \/ /\ fatalMsg = Wasm64Msg
          /\ calls = <<>> /\ dag = input
       \/ /\ fatalMsg \in {BulkMemoryMsg, TLSModelMsg, "Unknown scope!"}
          /\ calls # <<>>
          /\ calls[Len(calls)] = <<last.node, "fatal", run>>
          /\ last.kind = "fatal"
          /\ dag = last.pre
          /\ ~isMachineOpcode(dag, last.node)
          /\ \A i \in 1..(Len(calls) - 1) : calls[i][1] # last.node

C16_Witness ==
  /\ pc = "fatal"
  /\ fatalMsg = TLSModelMsg
  /\ Len(calls) >= 3
  /\ pos > 1

\* C17: with 64-bit addressing the pass aborts before any node is visited or
\* changed, whatever the graph is, an empty or a fully machine-level one too.
C17_Wasm64Aborts ==
  tc.addr64 =>
    /\ pc \in {"init", "fatal"}
    /\ pc = "fatal" => fatalMsg = Wasm64Msg
    /\ calls = <<>> /\ last = NoCall
    /\ dag = input /\ run = 1

C17_Witness ==
  /\ tc.addr64 /\ pc = "fatal"
  /\ AllMachine(input) /\ Len(input.nodes) = 2

\* No node is reachable from itself
Acyclic(d) ==
  \A n \in 1..Len(d.nodes) :
    n \notin ReachFrom(d, {}, {d.nodes[n].ops[i].n : i \in 1..Len(d.nodes[n].ops)})

\* C18: the graph is acyclic in every state of a run.
C18_Acyclic == Acyclic(dag)

C18_Witness ==
  /\ Acyclic(dag)
  /\ last.kind = "custom"
  /\ \E i, j \in 1..Len(calls) :
       /\ i # j /\ calls[i][2] = "custom" /\ calls[j][2] = "custom"
  /\ \E n \in NewNodes : Uses(dag, n) # {} /\ dag.nodes[n].ops # <<>>

\* C19: on a target without atomics support the fence rule declines every
\* atomic fence, whatever its scope: nothing is created, no fatal error is
\* raised, and the fence, with its operands, goes to the matcher.
C19_NoAtomicsDeclines ==
  (last.opc = "ATOMIC_FENCE" /\ ~isMachineOpcode(last.pre, last.node) /\ ~tc.atomics) =>
    /\ last.kind = "matcher"
    /\ NewNodes = {}
    /\ pc # "fatal" /\ fatalMsg = ""
    /\ \A n \in 1..Len(dag.nodes) :
         dag.nodes[n].opc \notin {"COMPILER_FENCE", "ATOMIC_FENCE"}
           \/ (n # last.node /\ dag.nodes[n] = last.pre.nodes[n])
    /\ dag.nodes[last.node].ops = last.pre.nodes[last.node].ops

C19_Witness ==
  /\ FenceCall(OtherScope) /\ ~tc.atomics
  /\ last.kind = "matcher"
  /\ \E its \in ItemSeqs :
       /\ Len(its) = 2
       /\ its[1].k = "fence" /\ its[1].b = SingleThread
       /\ its[2].k = "fence" /\ its[2].b = OtherScope
       /\ input = BuildDAG(its)

\* C20: in a run started through runOnMachineFunction the assertion that the
\* pointer type is i32 never fails: whenever Select is called the target has
\* no 64-bit addressing.
C20_PtrAssertHolds ==
  /\ fatalMsg # AssertMsg
  /\ (pc \in {"select", "done"} \/ last.kind # "none") =>
       (PtrVT(tc) = "i32" /\ ~AssertFails(tc))

C20_Witness ==
  /\ tc.asserts
  /\ TLSIntrinsicCall /\ last.kind = "custom"
  /\ \E i \in 1..Len(calls) :
       /\ calls[i][2] = "custom"
       /\ i < Len(calls)

====
